---- MODULE Spec2Model ----
(***************************************************************************)
(* Trading signal engine of the stock bot (src/app.py) and of its          *)
(* backtest harness (src/backtest.py).                                     *)
(*                                                                         *)
(* Numbers.  pandas works on floats; the model works on exact integers:    *)
(*   - a value read from a rolling column is either NaN (the window is not *)
(*     complete) or a number; NaN is the empty tuple and a number x is the *)
(*     one-element tuple <<x>>.  Every comparison with NaN is false, as in *)
(*     IEEE 754 (Gt, Lt below);                                            *)
(*   - ratios are compared by cross multiplication, so no rounding enters. *)
(***************************************************************************)
EXTENDS Integers, Sequences, FiniteSets, TLC

VARIABLES
    bench,      \* regime: the benchmark frame handed to detect_market_state
    mkt_app,    \* regime: what app.detect_market_state returned ("-" = not called)
    mkt_bt,     \* regime: what backtest.detect_market_state returned
    stock,      \* diagnosis: the instrument frame create_stock_chart downloaded
    diag,       \* diagnosis: the figures of the report
    cand,       \* scoring: one candidate snapshot (a row of df_cand)
    wcfg,       \* scoring: the regime of the live scan, the triple of the replay
    scored_live,\* scoring: the row after app.calculate_score
    scored_bt,  \* scoring: the total of backtest.calculate_score_v5_2
    scan_in,    \* scan: benchmark, download and watch list of one scan
    scan_out,   \* scan: what scan_potential_stocks returned
    sim_in,     \* replay: entry price, ATR, regime and future bars of a trade
    sim_out,    \* replay: what simulate_trade_v5_3 returned
    size_in,    \* sizing: a score
    size_live,  \* sizing: what app.get_position_sizing returned
    size_bt,    \* sizing: what backtest.calculate_position_size returned
    rs_cfg,     \* replay: the weights_config handed to run_strategy
    rs,         \* replay: the locals of run_strategy (date, regime, candidates, trades)
    gs,         \* grid search: the locals of run_grid_search
    ind_in,     \* indicators: the bar frame handed to the indicator functions
    ind_app,    \* indicators: the series computed by app.py
    ind_bt,     \* indicators: the columns written by backtest.calculate_indicators
    kl_in,      \* candlesticks: the last bars and averages of a frame
    kl_out,     \* candlesticks: what analyze_kline_structure returned
    USER_USAGE, \* bot: the usage record of each user seen
    clock,      \* bot: the time of the last message
    reply       \* bot: the text handle_message sent back

regime_vars == <<bench, mkt_app, mkt_bt>>

diag_vars == <<stock, diag>>

score_vars == <<cand, wcfg, scored_live, scored_bt>>

scan_vars == <<scan_in, scan_out>>

sim_vars == <<sim_in, sim_out>>

size_vars == <<size_in, size_live, size_bt>>

replay_vars == <<rs_cfg, rs>>

grid_vars == <<gs>>

ind_vars == <<ind_in, ind_app, ind_bt>>

kline_vars == <<kl_in, kl_out>>

bot_vars == <<USER_USAGE, clock, reply>>

\* what the operations of one component leave alone
outside_regime ==
    <<diag_vars, score_vars, scan_vars, sim_vars, size_vars,
      replay_vars, grid_vars, ind_vars, kline_vars, bot_vars>>

outside_diag ==
    <<regime_vars, score_vars, scan_vars, sim_vars, size_vars,
      replay_vars, grid_vars, ind_vars, kline_vars, bot_vars>>

outside_score ==
    <<regime_vars, diag_vars, scan_vars, sim_vars, size_vars,
      replay_vars, grid_vars, ind_vars, kline_vars, bot_vars>>

outside_scan ==
    <<regime_vars, diag_vars, score_vars, sim_vars, size_vars,
      replay_vars, grid_vars, ind_vars, kline_vars, bot_vars>>

outside_sim ==
    <<regime_vars, diag_vars, score_vars, scan_vars, size_vars,
      replay_vars, grid_vars, ind_vars, kline_vars, bot_vars>>

outside_size ==
    <<regime_vars, diag_vars, score_vars, scan_vars, sim_vars,
      replay_vars, grid_vars, ind_vars, kline_vars, bot_vars>>

outside_replay ==
    <<regime_vars, diag_vars, score_vars, scan_vars, sim_vars,
      size_vars, grid_vars, ind_vars, kline_vars, bot_vars>>

outside_grid ==
    <<regime_vars, diag_vars, score_vars, scan_vars, sim_vars,
      size_vars, replay_vars, ind_vars, kline_vars, bot_vars>>

outside_ind ==
    <<regime_vars, diag_vars, score_vars, scan_vars, sim_vars,
      size_vars, replay_vars, grid_vars, kline_vars, bot_vars>>

outside_kline ==
    <<regime_vars, diag_vars, score_vars, scan_vars, sim_vars,
      size_vars, replay_vars, grid_vars, ind_vars, bot_vars>>

outside_bot ==
    <<regime_vars, diag_vars, score_vars, scan_vars, sim_vars,
      size_vars, replay_vars, grid_vars, ind_vars, kline_vars>>

vars ==
    <<regime_vars, diag_vars, score_vars, scan_vars, sim_vars, size_vars,
      replay_vars, grid_vars, ind_vars, kline_vars, bot_vars>>

----------------------------------------------------------------------------
(* Floats with NaN *)

NaN == <<>>

Num(x) == <<x>>

IsNaN(a) == a = NaN

\* a > b on floats: false as soon as one side is NaN
Gt(a, b) == (~IsNaN(a)) /\ (~IsNaN(b)) /\ a[1] > b[1]

\* a < b on floats: false as soon as one side is NaN
Lt(a, b) == (~IsNaN(a)) /\ (~IsNaN(b)) /\ a[1] < b[1]

----------------------------------------------------------------------------
(* Rolling windows: Series.rolling(w).mean().iloc[-1] of a frame of n bars *)

MA_SHORT == 20
MA_LONG == 60
ATR_WINDOW == 14

\* the last value of a rolling(window) column over n bars whose full-window
\* value is v: NaN until the window is complete
RollingLast(n, window, v) == IF n >= window THEN Num(v) ELSE NaN

\* ADX is a rolling(14) mean of DX, itself defined from a rolling(14) of TR and
\* DM: its first defined row is row 2*14 - 1
AdxLast(n, v) == IF n >= 2 * ATR_WINDOW - 1 THEN Num(v) ELSE NaN

----------------------------------------------------------------------------
(* Regime classifier *)

Regimes == {"TREND", "RANGE", "VOLATILE"}

\* atr / close < 0.012 on floats (close > 0): NaN compares false
AtrPctBelow(atr, close) == (~IsNaN(atr)) /\ atr[1] * 1000 < 12 * close

\* A slip in the classifier: the volatility test taken before the trend test
detect_market_state_app_swapped(b) ==
    IF b.n = 0 THEN "RANGE"
    ELSE LET adx == AdxLast(b.n, b.adx)
             atr == RollingLast(b.n, ATR_WINDOW, b.atr)
             ma20 == RollingLast(b.n, MA_SHORT, b.ma20)
             ma60 == RollingLast(b.n, MA_LONG, b.ma60)
         IN  IF AtrPctBelow(atr, b.close) THEN "RANGE"
             ELSE IF Gt(ma20, ma60) /\ Gt(adx, Num(25)) THEN "TREND"
             ELSE "VOLATILE"

\* app.py detect_market_state(index_df): recomputes the indicators itself
detect_market_state_app(b) ==
    IF b.n = 0 THEN "RANGE"
    ELSE LET adx == AdxLast(b.n, b.adx)
             atr == RollingLast(b.n, ATR_WINDOW, b.atr)
             atr_below == IF b.close > 0 THEN AtrPctBelow(atr, b.close)
                          ELSE TRUE   \* atr_pct = 0
             ma20 == RollingLast(b.n, MA_SHORT, b.ma20)
             ma60 == RollingLast(b.n, MA_LONG, b.ma60)
         IN  IF Gt(ma20, ma60) /\ Gt(adx, Num(25)) THEN "TREND"
             ELSE IF atr_below THEN "RANGE"
             ELSE "VOLATILE"

\* backtest.py detect_market_state(bench_df): reads the columns that
\* calculate_indicators wrote on the frame
detect_market_state_bt(b) ==
    IF b.n = 0 THEN "RANGE"
    ELSE LET ma20 == RollingLast(b.n, MA_SHORT, b.ma20)
             ma60 == RollingLast(b.n, MA_LONG, b.ma60)
             adx == AdxLast(b.n, b.adx)
             atr == RollingLast(b.n, ATR_WINDOW, b.atr)
         IN  IF Gt(ma20, ma60) /\ Gt(adx, Num(25)) THEN "TREND"
             ELSE IF AtrPctBelow(atr, b.close) THEN "RANGE"
             ELSE "VOLATILE"

\* Benchmark frames: n bars, and the values the full windows would give on the
\* last bar.  n = 0 is the empty frame; 10 < ATR window; 14 <= 20 < ADX onset;
\* 30 has MA20, ATR and ADX but no MA60; 59 is one bar short of MA60.
BenchLens == {0, 10, 20, 30, 59, 60, 250}

BenchFrames ==
    [n : BenchLens, ma20 : {100, 110}, ma60 : {100, 110}, adx : {20, 25, 30},
     atr : {1, 2}, close : {100, 110}]

NoFrame == [n |-> 0]

NotRun == [run |-> FALSE]

RegimeIdle == bench = NoFrame /\ mkt_app = "-" /\ mkt_bt = "-"

DiagIdle == stock = NoFrame /\ diag = NotRun

ScoreIdle ==
    cand = NoFrame /\ wcfg = NoFrame /\ scored_live = NotRun /\ scored_bt = NotRun

ScanIdle == scan_in = NoFrame /\ scan_out = NotRun

SimIdle == sim_in = NoFrame /\ sim_out = NotRun

SizeIdle == size_in = 0 /\ size_live = NotRun /\ size_bt = NotRun

ReplayIdle == rs_cfg = NoFrame /\ rs = NotRun

GridIdle == gs = NotRun

IndIdle == ind_in = NoFrame /\ ind_app = NotRun /\ ind_bt = NotRun

KlineIdle == kl_in = NoFrame /\ kl_out = NotRun

BotIdle == USER_USAGE = <<>> /\ clock = 0 /\ reply = NotRun

\* the components added after the first five stay idle in the runs of the others
LaterIdle == SizeIdle /\ ReplayIdle /\ GridIdle /\ IndIdle /\ KlineIdle /\ BotIdle

RegimeInit ==
    /\ bench \in BenchFrames
    /\ mkt_app = "-"
    /\ mkt_bt = "-"
    /\ DiagIdle
    /\ ScoreIdle
    /\ ScanIdle
    /\ SimIdle
    /\ LaterIdle

DetectApp ==
    /\ mkt_app = "-"
    /\ mkt_app' = detect_market_state_app(bench)
    /\ UNCHANGED <<bench, mkt_bt, outside_regime>>

DetectBacktest ==
    /\ mkt_bt = "-"
    /\ mkt_bt' = detect_market_state_bt(bench)
    /\ UNCHANGED <<bench, mkt_app, outside_regime>>

RegimeNext == DetectApp \/ DetectBacktest

SpecRegime == RegimeInit /\ [][RegimeNext]_vars

\* The precedence table of the classifier on defined inputs
RegimeTable(b) ==
    IF b.ma20 > b.ma60 /\ b.adx > 25 THEN "TREND"
    ELSE IF b.atr * 1000 < 12 * b.close THEN "RANGE"
    ELSE "VOLATILE"

ScenarioA(b) ==
    b.ma20 = 110 /\ b.ma60 = 100 /\ b.adx = 30 /\ b.atr = 1 /\ b.close = 110

\* C1: on a benchmark whose indicators are all defined (at least 60 bars),
\* both classifiers return the label of the precedence table TREND, then
\* RANGE, then VOLATILE; scenario A (MA20=110, MA60=100, ADX=30, ATR=1,
\* close=110) is TREND although ATR/close < 0.012.
C1_RegimePrecedence ==
    bench.n >= MA_LONG =>
        /\ mkt_app # "-" => mkt_app = RegimeTable(bench)
        /\ mkt_bt # "-" => mkt_bt = RegimeTable(bench)
        /\ (ScenarioA(bench) /\ mkt_app # "-") => mkt_app = "TREND"
        /\ (ScenarioA(bench) /\ mkt_bt # "-") => mkt_bt = "TREND"

C1_Witness ==
    /\ bench.n >= MA_LONG
    /\ ScenarioA(bench)
    /\ bench.atr * 1000 < 12 * bench.close
    /\ mkt_app = "TREND"
    /\ mkt_bt = "TREND"

\* C2: a benchmark that is empty or shorter than 60 bars is classified RANGE
\* by both classifiers, never TREND or VOLATILE.
C2_ShortBenchIsRange ==
    bench.n < MA_LONG =>
        /\ mkt_app \in {"-", "RANGE"}
        /\ mkt_bt \in {"-", "RANGE"}

----------------------------------------------------------------------------
(* Single-stock diagnosis: create_stock_chart.  Prices are in hundredths.   *)

\* A ratio num/den (den > 0) kept exact; NaN when an operand is NaN
Ratio(num, den) == <<num, den>>

\* ratio > k on floats: false when the ratio is NaN
RatioGt(r, k) == (~IsNaN(r)) /\ r[1] > k * r[2]

\* the ratio rounded to two decimals, in hundredths (as "%.2f" prints it)
Round2(r) == (200 * r[1] + r[2]) \div (2 * r[2])

\* get_valuation_status / the spec's bias: (price - ma) / ma * 100
BiasPct(price, ma) ==
    IF IsNaN(ma) THEN NaN ELSE Ratio((price - ma[1]) * 100, ma[1])

\* A slip in the gate: the deviation test left out
check_entry_gate_no_wait(bias, rsi) ==
    IF Gt(rsi, Num(85)) THEN "BAN" ELSE "PASS"

\* app.py check_entry_gate(bias, rsi)
check_entry_gate(bias, rsi) ==
    IF RatioGt(bias, 12) THEN "WAIT"
    ELSE IF Gt(rsi, Num(85)) THEN "BAN"
    ELSE "PASS"

\* create_stock_chart: trend_dir from the last MA20, MA60 and slope
trend_dir(ma20, ma60, slope) ==
    IF Gt(ma20, ma60) /\ slope > 0 THEN "UP"
    ELSE IF Lt(ma20, ma60) /\ slope < 0 THEN "DOWN"
    ELSE "SIDE"

\* create_stock_chart: atr_stop_loss = price - atr * 1.5
atr_stop_loss(price, atr) == price - (atr * 15) \div 10

\* A slip in the stop: MA20 taken in an uptrend without the max()
final_stop_no_max(price, atr, ma20, ma60, slope) ==
    IF trend_dir(ma20, ma60, slope) = "UP" /\ Lt(ma20, Num(price))
    THEN ma20[1]
    ELSE atr_stop_loss(price, atr)

\* create_stock_chart: final_stop
final_stop(price, atr, ma20, ma60, slope) ==
    IF trend_dir(ma20, ma60, slope) = "UP" /\ Lt(ma20, Num(price))
    THEN IF ma20[1] > atr_stop_loss(price, atr) THEN ma20[1]
         ELSE atr_stop_loss(price, atr)
    ELSE atr_stop_loss(price, atr)

\* create_stock_chart: target_price_val = price + atr * 3
target_price_val(price, atr) == price + atr * 3

\* create_stock_chart, from the downloaded frame to the figures of the report.
\* With fewer than 60 bars the MA60 column is a copy of the MA20 column;
\* NaN slope, RSI and ATR fall back to 0, 50 and 2% of the price.
create_stock_chart(s) ==
    LET price == s.price
        ma20 == RollingLast(s.n, MA_SHORT, s.ma20)
        ma60 == IF s.n < MA_LONG THEN ma20 ELSE Num(s.ma60)
        slope == IF s.n >= MA_SHORT + 5 THEN s.slope ELSE 0
        rsi_col == IF s.n >= ATR_WINDOW THEN s.rsi ELSE NaN
        rsi == IF IsNaN(rsi_col) THEN Num(50) ELSE rsi_col
        atr_col == RollingLast(s.n, ATR_WINDOW, s.atr)
        atr == IF Gt(atr_col, Num(0)) THEN atr_col[1] ELSE (price * 2) \div 100
        bias_val == BiasPct(price, ma60)
    IN  [run |-> TRUE,
         price |-> price, ma20 |-> ma20, ma60 |-> ma60, slope |-> slope,
         rsi |-> rsi, atr |-> atr,
         bias_val |-> bias_val,
         trend_dir |-> trend_dir(ma20, ma60, slope),
         atr_stop_loss |-> atr_stop_loss(price, atr),
         final_stop |-> final_stop(price, atr, ma20, ma60, slope),
         target_price_val |-> target_price_val(price, atr),
         entry_status |-> check_entry_gate(bias_val, rsi)]

\* Instrument frames.  10 bars: no indicator is defined; 30: MA20, slope, RSI
\* and ATR but no MA60; 250: a full year.  rsi is NaN on a flat window (0/0).
StockLens == {10, 30, 250}

StockFrames ==
    [n : StockLens, price : {10000, 11200},
     ma20 : {8800, 9500, 9700, 10500}, ma60 : {8000, 10000, 10500},
     slope : {-10, 0, 10}, rsi : {NaN, Num(50), Num(85), Num(90)},
     atr : {0, 300, 800}]

DiagInit ==
    /\ stock \in StockFrames
    /\ diag = NotRun
    /\ RegimeIdle
    /\ ScoreIdle
    /\ ScanIdle
    /\ SimIdle
    /\ LaterIdle

Diagnose ==
    /\ ~diag.run
    /\ diag' = create_stock_chart(stock)
    /\ UNCHANGED <<stock, outside_diag>>

DiagNext == Diagnose

SpecDiag == DiagInit /\ [][DiagNext]_vars

GateOutcomes == {"PASS", "WAIT", "BAN"}

\* C3 as stated: the outcome is one of PASS, WAIT, BAN; bias > 12 never
\* passes; PASS is returned only when bias <= 12 and rsi <= 85.
C3_GateAsStated ==
    diag.run =>
        /\ diag.entry_status \in GateOutcomes
        /\ RatioGt(diag.bias_val, 12) => diag.entry_status # "PASS"
        /\ diag.entry_status = "PASS" =>
              /\ ~IsNaN(diag.bias_val)
              /\ diag.bias_val[1] <= 12 * diag.bias_val[2]
              /\ ~IsNaN(diag.rsi)
              /\ diag.rsi[1] <= 85

\* C3 (amended): the outcome is one of PASS, WAIT, BAN; bias > 12 never
\* passes; PASS is returned only when neither bias > 12 nor rsi > 85 is true,
\* which for a defined bias and rsi means bias <= 12 and rsi <= 85 (an
\* undefined bias compares false and does not block PASS).
C3_GateTotal ==
    diag.run =>
        /\ diag.entry_status \in GateOutcomes
        /\ RatioGt(diag.bias_val, 12) => diag.entry_status \in {"WAIT", "BAN"}
        /\ diag.entry_status = "PASS" =>
              /\ IsNaN(diag.bias_val) \/ diag.bias_val[1] <= 12 * diag.bias_val[2]
              /\ IsNaN(diag.rsi) \/ diag.rsi[1] <= 85

C3_Witness ==
    /\ diag.run
    /\ RatioGt(diag.bias_val, 12)
    /\ Gt(diag.rsi, Num(85))
    /\ diag.entry_status = "WAIT"

\* C5: the bias handed to the entry gate by the diagnosis is the deviation
\* of the price from its 20-day average, (price - ma20)/ma20*100; price 100
\* with ma20 105 gives -4.76 and PASS.
C5_BiasFromMA20 ==
    diag.run =>
        /\ diag.bias_val = BiasPct(diag.price, diag.ma20)
        /\ (diag.price = 10000 /\ diag.ma20 = Num(10500) /\ ~Gt(diag.rsi, Num(85)))
              => (Round2(diag.bias_val) = -476 /\ diag.entry_status = "PASS")

\* C9 (diagnosis): stop = price - 1.5 atr < price < target = price + 3.5 atr
C9_TrendLevelsDiag ==
    diag.run =>
        /\ diag.atr_stop_loss = diag.price - (diag.atr * 15) \div 10
        /\ diag.target_price_val = diag.price + (diag.atr * 35) \div 10
        /\ diag.atr_stop_loss < diag.price
        /\ diag.price < diag.target_price_val

DiagTightens(d) ==
    /\ d.trend_dir = "UP"
    /\ Gt(d.ma20, Num(d.atr_stop_loss))
    /\ Lt(d.ma20, Num(d.price))

\* C10: the final stop of the diagnosis is never below the ATR stop; it is
\* MA20 when the instrument is in an uptrend (ma20 > ma60 and slope > 0) and
\* ATR stop < MA20 < price, and the ATR stop in every other case; it is below
\* the price (the ATR used is always positive).
C10_FinalStop ==
    diag.run =>
        /\ diag.atr > 0
        /\ diag.trend_dir = "UP" <=> (Gt(diag.ma20, diag.ma60) /\ diag.slope > 0)
        /\ diag.final_stop >= diag.atr_stop_loss
        /\ DiagTightens(diag) => diag.final_stop = diag.ma20[1]
        /\ ~DiagTightens(diag) => diag.final_stop = diag.atr_stop_loss
        /\ diag.final_stop < diag.price

C10_Witness ==
    /\ diag.run
    /\ DiagTightens(diag)
    /\ diag.final_stop = diag.ma20[1]
    /\ diag.final_stop > diag.atr_stop_loss

----------------------------------------------------------------------------
(* Multi-factor score.  A candidate row holds rs_rank in percent, prices,  *)
(* slope and ATR in hundredths and the volume ratio in tenths; a weight is *)
(* in tenths.  Sub-scores are in hundredths of a point (score_momentum in  *)
(* thousandths) and the total in units of 0.0001 point.                    *)

Min(a, b) == IF a < b THEN a ELSE b

Max(a, b) == IF a > b THEN a ELSE b

Abs(a) == IF a < 0 THEN -a ELSE a

\* 100 points and the A+ bonus of 15 points, in units of 0.0001 point
SCORE_MAX == 1000000
APLUS_BONUS == 150000

\* app.py WEIGHT_BY_STATE
WEIGHT_BY_STATE(state) ==
    CASE state = "TREND" -> [trend |-> 6, momentum |-> 3, risk |-> 1]
      [] state = "RANGE" -> [trend |-> 4, momentum |-> 2, risk |-> 4]
      [] state = "VOLATILE" -> [trend |-> 3, momentum |-> 4, risk |-> 3]

\* backtest.py run_grid_search: the triples of the grid, r = 1 - t - m >= 0.1
weight_combinations ==
    { [trend |-> t, momentum |-> m, risk |-> 10 - t - m] :
        <<t, m>> \in { tm \in {4, 5, 6, 7} \X {2, 3, 4} : 10 - tm[1] - tm[2] >= 1 } }

\* (score_rs * 0.7) + (score_ma * 0.3), in hundredths
score_trend(row) ==
    70 * row.rs_rank + 30 * (IF row.ma20 > row.ma60 THEN 100 ELSE 0)

\* exp(-((vol - 2.0) ** 2) / 2.0) * 100, in hundredths, at the volume ratios
\* the model draws (vol in tenths)
score_vol(vol) ==
    CASE vol = 0 -> 1353
      [] vol = 14 -> 8352
      [] vol = 15 -> 8824
      [] vol = 20 -> 10000
      [] vol = 25 -> 8824
      [] vol = 26 -> 8352
      [] vol = 50 -> 111

\* app.py: where(slope_pct > 0, (slope_pct * 1000).clip(upper=100), 0)
score_slope(row) ==
    IF row.slope > 0 THEN Min((100000 * row.slope) \div row.price, 10000) ELSE 0

\* app.py: (score_slope * 0.4) + (score_vol * 0.6), in thousandths
score_momentum(row) == 4 * score_slope(row) + 6 * score_vol(row.vol_ratio)

\* app.py: (100 - |atr/price - 0.03| * 100 * 20).clip(lower=0), in hundredths
score_risk(row) ==
    Max(10000 - Abs((200000 * row.atr) \div row.price - 6000), 0)

\* app.py: the weighted sum written to total_score before the bonus
weighted_total(row, w) ==
    score_trend(row) * w.trend * 10 + score_momentum(row) * w.momentum
        + score_risk(row) * w.risk * 10

\* A slip in the A+ test: rs_rank compared strictly
is_aplus_strict(row) ==
    /\ row.rs_rank > 85
    /\ row.ma20 > row.ma60
    /\ row.slope > 0
    /\ row.vol_ratio >= 15 /\ row.vol_ratio <= 25
    /\ score_risk(row) > 6000

\* app.py: is_aplus
is_aplus(row) ==
    /\ row.rs_rank >= 85
    /\ row.ma20 > row.ma60
    /\ row.slope > 0
    /\ row.vol_ratio >= 15 /\ row.vol_ratio <= 25
    /\ score_risk(row) > 6000

\* A slip in the total: the bonus added after the clip
total_score_unclipped(row, w) ==
    Min(weighted_total(row, w), SCORE_MAX)
        + (IF is_aplus(row) THEN APLUS_BONUS ELSE 0)

\* app.py: total_score after "+= 15" on the A+ rows and clip(upper=100)
total_score(row, w) ==
    Min(weighted_total(row, w) + (IF is_aplus(row) THEN APLUS_BONUS ELSE 0),
        SCORE_MAX)

\* app.py calculate_score, on one row of df_cand
calculate_score(row, w) ==
    [run |-> TRUE,
     score_momentum |-> score_momentum(row),
     score_risk |-> score_risk(row),
     total_score |-> total_score(row, w),
     is_aplus |-> is_aplus(row)]

\* backtest.py calculate_score_v5_2(row, weights): no bonus and no clip
calculate_score_v5_2(row, w) ==
    LET score_sl == IF row.price > 0
                    THEN Min(Max((100000 * row.slope) \div row.price, 0), 10000)
                    ELSE 0
        score_mom == 4 * score_sl + 6 * score_vol(row.vol_ratio)
        atr_dist == IF row.price > 0
                    THEN Abs((200000 * row.atr) \div row.price - 6000)
                    ELSE 0
        score_rk == Max(10000 - atr_dist, 0)
    IN  score_trend(row) * w.trend * 10 + score_mom * w.momentum
            + score_rk * w.risk * 10

\* Candidate rows.  rs_rank 84/85 and the volume ratios 1.4/1.5/2.5/2.6 sit on
\* the two sides of the A+ bounds; with price 100.00 the ATRs 1.00, 1.50, 3.00
\* and 20.00 give risk scores 60, 70, 100 and 0; slope 20.00 saturates the
\* slope score.
CandRows ==
    [rs_rank : {0, 84, 85, 90, 100}, ma20 : {10500}, ma60 : {10000, 11000},
     slope : {-10, 0, 10, 2000}, price : {10000},
     vol_ratio : {0, 14, 15, 20, 25, 26, 50}, atr : {100, 150, 300, 2000}]

ScoreInit ==
    /\ cand \in CandRows
    /\ wcfg \in [state : Regimes, weights : weight_combinations]
    /\ scored_live = NotRun
    /\ scored_bt = NotRun
    /\ RegimeIdle
    /\ DiagIdle
    /\ ScanIdle
    /\ SimIdle
    /\ LaterIdle

ScoreLive ==
    /\ ~scored_live.run
    /\ scored_live' = calculate_score(cand, WEIGHT_BY_STATE(wcfg.state))
    /\ UNCHANGED <<cand, wcfg, scored_bt, outside_score>>

ScoreBacktest ==
    /\ ~scored_bt.run
    /\ scored_bt' = [run |-> TRUE,
                     score |-> calculate_score_v5_2(cand, wcfg.weights)]
    /\ UNCHANGED <<cand, wcfg, scored_live, outside_score>>

ScoreNext == ScoreLive \/ ScoreBacktest

SpecScore == ScoreInit /\ [][ScoreNext]_vars

\* C6: for a row with price > 0, atr >= 0, volume ratio >= 0 and rs_rank in
\* [0,1], the total of the live scorer (bonus added, then clipped) and the
\* total of the replay scorer are both within [0,100].
C6_ScoreInRange ==
    /\ scored_live.run =>
          (scored_live.total_score >= 0 /\ scored_live.total_score <= SCORE_MAX)
    /\ scored_bt.run => (scored_bt.score >= 0 /\ scored_bt.score <= SCORE_MAX)

\* an A+ row whose weighted sum is above 85, so that the clip acts
C6_Witness ==
    /\ scored_live.run
    /\ scored_bt.run
    /\ scored_live.is_aplus
    /\ weighted_total(cand, WEIGHT_BY_STATE(wcfg.state)) + APLUS_BONUS > SCORE_MAX
    /\ scored_live.total_score = SCORE_MAX
    /\ scored_bt.score > 0

FiveConditions(row) ==
    /\ row.rs_rank >= 85
    /\ row.ma20 > row.ma60
    /\ row.slope > 0
    /\ row.vol_ratio >= 15
    /\ row.vol_ratio <= 25
    /\ scored_live.score_risk > 6000

\* C7: the A+ flag of calculate_score is true exactly when rs_rank >= 0.85,
\* ma20 > ma60, slope > 0, 1.5 <= volume ratio <= 2.5 and risk score > 60
\* hold together; the total is then min(weighted sum + 15, 100), and the
\* plain weighted sum (clipped to 100) when one of the five fails.
C7_AplusBonus ==
    scored_live.run =>
        LET sum == weighted_total(cand, WEIGHT_BY_STATE(wcfg.state))
        IN  /\ scored_live.is_aplus <=> FiveConditions(cand)
            /\ FiveConditions(cand) =>
                  scored_live.total_score = Min(sum + APLUS_BONUS, SCORE_MAX)
            /\ ~FiveConditions(cand) =>
                  scored_live.total_score = Min(sum, SCORE_MAX)

\* scenario C: rank 0.9, ma20 > ma60, slope > 0, volume ratio 2.0, risk 70
C7_Witness ==
    /\ scored_live.run
    /\ cand.rs_rank = 90 /\ cand.ma20 > cand.ma60 /\ cand.slope > 0
    /\ cand.vol_ratio = 20 /\ scored_live.score_risk = 7000
    /\ scored_live.is_aplus
    /\ scored_live.total_score
          = weighted_total(cand, WEIGHT_BY_STATE(wcfg.state)) + APLUS_BONUS
    /\ scored_live.total_score < SCORE_MAX

----------------------------------------------------------------------------
(* Trade parameters and the forward simulation of the replay.  Multiples   *)
(* are in tenths, prices and ATR in hundredths.                            *)

\* A slip in the table: the RANGE and VOLATILE rows exchanged
get_trade_params_swapped(state) ==
    CASE state = "TREND" -> <<15, 35, 30>>
      [] state = "RANGE" -> <<20, 20, 5>>
      [] OTHER -> <<10, 15, 10>>

\* app.py get_trade_params(state): stop_mult, target_mult, max_days
get_trade_params(state) ==
    CASE state = "TREND" -> <<15, 35, 30>>
      [] state = "RANGE" -> <<10, 15, 10>>
      [] OTHER -> <<20, 20, 5>>

\* app.py scan_potential_stocks: the tuple set when the benchmark is missing
fallback_trade_params == <<10, 15, 10>>

\* backtest.py simulate_trade_v5_3: stop_mult, target_mult, max_days
sim_trade_params(state) ==
    IF state = "TREND" THEN <<15, 35, 30>>
    ELSE IF state = "RANGE" THEN <<10, 15, 10>>
    ELSE <<20, 20, 5>>

\* price - atr * stop_mult
stop_level(price, atr, stop_mult) == price - (atr * stop_mult) \div 10

\* price + atr * target_mult
target_level(price, atr, target_mult) == price + (atr * target_mult) \div 10

\* a slice that keeps every bar
iloc_head_all(bars, k) == bars

\* df_future.iloc[:max_days]
iloc_head(bars, k) == SubSeq(bars, 1, Min(k, Len(bars)))

\* a loop that tests the target of a bar before its stop
RECURSIVE first_exit_target_first(_, _, _, _)
first_exit_target_first(bars, i, stop_loss, target) ==
    IF i > Len(bars) THEN [day |-> 0, reason |-> "TIME"]
    ELSE IF bars[i].High >= target THEN [day |-> i, reason |-> "TARGET"]
    ELSE IF bars[i].Low <= stop_loss THEN [day |-> i, reason |-> "STOP"]
    ELSE first_exit_target_first(bars, i + 1, stop_loss, target)

\* the loop of simulate_trade_v5_3 from bar i on: the first bar that touches
\* the stop (tested first) or the target; 0 when the window ends untouched
RECURSIVE first_exit(_, _, _, _)
first_exit(bars, i, stop_loss, target) ==
    IF i > Len(bars) THEN [day |-> 0, reason |-> "TIME"]
    ELSE IF bars[i].Low <= stop_loss THEN [day |-> i, reason |-> "STOP"]
    ELSE IF bars[i].High >= target THEN [day |-> i, reason |-> "TARGET"]
    ELSE first_exit(bars, i + 1, stop_loss, target)

\* backtest.py simulate_trade_v5_3(entry_price, df_future, atr, state)
simulate_trade_v5_3(entry_price, df_future, atr, state) ==
    LET params == sim_trade_params(state)
        stop_loss == stop_level(entry_price, atr, params[1])
        target == target_level(entry_price, atr, params[2])
        window == iloc_head(df_future, params[3])
        hit == first_exit(window, 1, stop_loss, target)
        exit_price == CASE hit.reason = "STOP" -> stop_loss
                        [] hit.reason = "TARGET" -> target
                        [] OTHER -> window[Len(window)].Close
    IN  [run |-> TRUE,
         params |-> params,
         stop_loss |-> stop_loss,
         target |-> target,
         roi |-> Ratio(exit_price - entry_price, entry_price),
         reason |-> hit.reason,
         exit_day |-> IF hit.day = 0 THEN Len(window) ELSE hit.day]

\* Future bars: a run of quiet bars followed by a short tail of arbitrary ones
QuietMax == 30
MaxTail == 2

QuietBar == [Low |-> 9900, High |-> 10100, Close |-> 10050]

TailBars ==
    { QuietBar,
      [Low |-> 9500, High |-> 9950, Close |-> 9600],
      [Low |-> 9950, High |-> 11100, Close |-> 11000],
      [Low |-> 9300, High |-> 11100, Close |-> 10000] }

Tails == UNION { [1..k -> TailBars] : k \in 0..MaxTail }

Futures ==
    { [i \in 1..(q + Len(t)) |-> IF i <= q THEN QuietBar ELSE t[i - q]] :
        <<q, t>> \in { qt \in (0..QuietMax) \X Tails : qt[1] + Len(qt[2]) > 0 } }

SimInputs ==
    [entry_price : {10000}, atr : {0, 200, 300, 500}, state : Regimes,
     df_future : Futures]

SimInit ==
    /\ sim_in \in SimInputs
    /\ sim_out = NotRun
    /\ RegimeIdle
    /\ DiagIdle
    /\ ScoreIdle
    /\ ScanIdle
    /\ LaterIdle

SimulateTrade ==
    /\ ~sim_out.run
    /\ sim_out' = simulate_trade_v5_3(sim_in.entry_price, sim_in.df_future,
                                      sim_in.atr, sim_in.state)
    /\ UNCHANGED <<sim_in, outside_sim>>

SimNext == SimulateTrade

SpecSim == SimInit /\ [][SimNext]_vars

\* C13: simulate_trade_v5_3 walks the future bars in date order and looks at
\* no more than max_holding_days of them; it exits at the first bar whose
\* low is at or below the stop (STOP, at the stop price) or whose high is at
\* or above the target (TARGET, at the target price), otherwise at the close
\* of the last bar of the window (TIME); the return is
\* (exit - entry) / entry.  Entry 100 and stop 95, the low of day 3 touching
\* 95 with no earlier bar touched: (STOP, -0.05).
C13_WalkInDateOrder ==
    sim_out.run =>
       LET f == sim_in.df_future
           entry == sim_in.entry_price
           w == Min(sim_out.params[3], Len(f))
           d == sim_out.exit_day
           touched(i) == f[i].Low <= sim_out.stop_loss
                            \/ f[i].High >= sim_out.target
       IN  /\ d \in 1..w
           /\ \A i \in 1..(d - 1) : ~touched(i)
           /\ sim_out.reason \in {"STOP", "TARGET", "TIME"}
           /\ sim_out.reason = "STOP"
                 => /\ f[d].Low <= sim_out.stop_loss
                    /\ sim_out.roi = Ratio(sim_out.stop_loss - entry, entry)
           /\ sim_out.reason = "TARGET"
                 => /\ f[d].High >= sim_out.target
                    /\ sim_out.roi = Ratio(sim_out.target - entry, entry)
           /\ sim_out.reason = "TIME"
                 => /\ d = w
                    /\ ~touched(w)
                    /\ sim_out.roi = Ratio(f[w].Close - entry, entry)
           /\ (/\ entry = 10000
               /\ sim_out.stop_loss = 9500
               /\ w >= 3
               /\ ~touched(1) /\ ~touched(2)
               /\ f[3].Low <= 9500)
                 => /\ sim_out.reason = "STOP"
                    /\ d = 3
                    /\ sim_out.roi = Ratio(-500, 10000)

\* entry 100.00, ATR 5.00 in RANGE (stop 95.00, target 107.50), two quiet
\* bars and then a low of 95.00
C13_Witness ==
    /\ sim_out.run
    /\ sim_in.state = "RANGE"
    /\ sim_in.entry_price = 10000
    /\ sim_out.stop_loss = 9500
    /\ Len(sim_in.df_future) > 3
    /\ sim_in.df_future[1] = QuietBar
    /\ sim_in.df_future[2] = QuietBar
    /\ sim_in.df_future[3].Low = 9500
    /\ sim_out.reason = "STOP"
    /\ sim_out.exit_day = 3
    /\ sim_out.roi = Ratio(-500, 10000)

----------------------------------------------------------------------------
(* Candidate scan: scan_potential_stocks                                   *)

\* app.py get_position_sizing(score), score in units of 0.0001 point
get_position_sizing(score) ==
    IF score >= 900000 THEN "1.5x"
    ELSE IF score >= 800000 THEN "1.0x"
    ELSE IF score >= 700000 THEN "0.5x"
    ELSE "0x"

\* scan_potential_stocks: regime, weights and trade parameters of the scan.
\* An empty benchmark raises inside the inner try and the except branch sets
\* the RANGE fallback.
scan_regime(b) ==
    IF b.n > 0
    THEN LET mkt == detect_market_state_app(b)
         IN  [mkt |-> mkt, w |-> WEIGHT_BY_STATE(mkt),
              params |-> get_trade_params(mkt), bench_ok |-> TRUE]
    ELSE [mkt |-> "RANGE", w |-> WEIGHT_BY_STATE("RANGE"),
          params |-> fallback_trade_params, bench_ok |-> FALSE]

\* scan_potential_stocks: the per-stock filter ahead of candidates.append
\* (max_price = 0 stands for None)
is_candidate(s, max_price) ==
    /\ s.n >= MA_LONG
    /\ ~(max_price > 0 /\ s.price > max_price)
    /\ s.ma20 > s.ma60
    /\ s.slope > 0

\* df['rs_raw'].rank(pct=True) of candidate i among the candidates C, in
\* percent: average rank of ties, divided by the number of candidates
rs_rank_pct(stocks, C, i) ==
    LET less == Cardinality({j \in C : stocks[j].rs_raw < stocks[i].rs_raw})
        same == Cardinality({j \in C : stocks[j].rs_raw = stocks[i].rs_raw})
    IN  (100 * (2 * less + same + 1)) \div (2 * Cardinality(C))

\* the row of df_cand built for candidate i: ATR is the 14-bar mean of
\* high - low, or 2% of the price when that mean is not positive
cand_row(stocks, C, i) ==
    LET s == stocks[i]
    IN  [rs_rank |-> rs_rank_pct(stocks, C, i), ma20 |-> s.ma20, ma60 |-> s.ma60,
         slope |-> s.slope, price |-> s.price, vol_ratio |-> s.vol_ratio,
         atr |-> IF s.hl14 > 0 THEN s.hl14 ELSE (s.price * 2) \div 100]

\* th = 70 if mkt == 'RANGE' else 60
score_threshold(mkt) == IF mkt = "RANGE" THEN 700000 ELSE 600000

\* scan_potential_stocks(max_price, sector_name) on one set of inputs; first
\* is the row that heads the sorted picks.  The loop over the picks computes
\* stop, target and position of the first pick and then calls
\* check_entry_gate(r.price, r.rsi, r.ma20): three arguments for a function of
\* two, a TypeError that the outer except turns into the scan-error reply.
scan_potential_stocks(in, first) ==
    LET reg == scan_regime(in.bench)
        C == {i \in 1..Len(in.stocks) : is_candidate(in.stocks[i], in.max_price)}
        score(i) == total_score(cand_row(in.stocks, C, i), reg.w)
        th == score_threshold(reg.mkt)
        picks == {i \in C : score(i) >= th}
        base == [run |-> TRUE, mkt |-> reg.mkt, params |-> reg.params,
                 bench_ok |-> reg.bench_ok, th |-> th]
    IN  IF reg.bench_ok /\ reg.mkt = "VOLATILE"
        THEN base @@ [outcome |-> "CIRCUIT", title |-> "CIRCUIT_BREAKER",
                      recommendations |-> <<>>, candidates |-> {},
                      picks |-> {}, levels |-> <<>>]
        ELSE IF ~in.data_ok
        THEN base @@ [outcome |-> "THROTTLED", title |-> "PLAIN",
                      recommendations |-> <<"YAHOO_THROTTLED">>,
                      candidates |-> {}, picks |-> {}, levels |-> <<>>]
        ELSE IF C = {}
        THEN base @@ [outcome |-> "OK", title |-> "PLAIN",
                      recommendations |-> <<>>, candidates |-> C,
                      picks |-> {}, levels |-> <<>>]
        ELSE IF picks = {}
        THEN base @@ [outcome |-> "OK", title |-> "COMMENTED",
                      recommendations |-> <<"REMINDER">>, candidates |-> C,
                      picks |-> {}, levels |-> <<>>]
        ELSE LET r == cand_row(in.stocks, C, first)
             IN  base @@ [outcome |-> "ERROR", title |-> "PLAIN",
                          recommendations |-> <<"SCAN_ERROR">>,
                          candidates |-> C, picks |-> picks,
                          levels |-> << [stock |-> first,
                                         score |-> score(first),
                                         stop |-> stop_level(r.price, r.atr, reg.params[1]),
                                         target |-> target_level(r.price, r.atr, reg.params[2]),
                                         pos |-> get_position_sizing(score(first))] >>]

\* the rows that may head df.sort_values('total_score', ascending=False)
top_rows(in) ==
    LET reg == scan_regime(in.bench)
        C == {i \in 1..Len(in.stocks) : is_candidate(in.stocks[i], in.max_price)}
        score(i) == total_score(cand_row(in.stocks, C, i), reg.w)
    IN  IF C = {} THEN {0}
        ELSE {i \in C : \A j \in C : score(j) <= score(i)}

\* Watch-list snapshots (prices in hundredths): a strong instrument, the same
\* one overheated (RSI 90, price 20% above MA20, above the 100.00 price cap),
\* a weak one, one below its MA60 and one with 30 bars only.
WatchLen == 2

ScanStocks ==
    { [n |-> 250, price |-> 9000, ma20 |-> 8800, ma60 |-> 8000, slope |-> 90,
       vol_ratio |-> 20, hl14 |-> 270, rs_raw |-> 120, rsi |-> Num(60)],
      [n |-> 250, price |-> 12000, ma20 |-> 10000, ma60 |-> 9000, slope |-> 120,
       vol_ratio |-> 20, hl14 |-> 360, rs_raw |-> 130, rsi |-> Num(90)],
      [n |-> 250, price |-> 9000, ma20 |-> 8800, ma60 |-> 8700, slope |-> 1,
       vol_ratio |-> 0, hl14 |-> 0, rs_raw |-> 90, rsi |-> NaN],
      [n |-> 250, price |-> 9000, ma20 |-> 8800, ma60 |-> 9500, slope |-> -5,
       vol_ratio |-> 14, hl14 |-> 270, rs_raw |-> 80, rsi |-> Num(40)],
      [n |-> 30, price |-> 9000, ma20 |-> 8800, ma60 |-> 8000, slope |-> 90,
       vol_ratio |-> 20, hl14 |-> 270, rs_raw |-> 120, rsi |-> Num(60)] }

ScanBenches ==
    [n : {0, 250}, ma20 : {100, 110}, ma60 : {100}, adx : {20, 30},
     atr : {1, 2}, close : {100}]

ScanInputs ==
    [bench : ScanBenches, data_ok : BOOLEAN, max_price : {0, 10000},
     stocks : [1..WatchLen -> ScanStocks]]

ScanInit ==
    /\ scan_in \in ScanInputs
    /\ scan_out = NotRun
    /\ RegimeIdle
    /\ DiagIdle
    /\ ScoreIdle
    /\ SimIdle
    /\ LaterIdle

ScanPotentialStocks ==
    /\ scan_in # NoFrame
    /\ ~scan_out.run
    /\ \E first \in top_rows(scan_in) :
          scan_out' = scan_potential_stocks(scan_in, first)
    /\ UNCHANGED <<scan_in, outside_scan>>

ScanNext == ScanPotentialStocks

SpecScan == ScanInit /\ [][ScanNext]_vars

\* C4: whenever at least one candidate meets the score threshold the scan
\* completes with the ranked list, not with an error: every pick whose gate
\* outcome is PASS or WAIT is listed and every BAN pick is dropped.
C4_ScanListsGatedPicks ==
    (scan_out.run /\ scan_out.picks # {}) =>
        /\ scan_out.outcome = "OK"
        /\ "SCAN_ERROR" \notin {scan_out.recommendations[k] :
                                  k \in 1..Len(scan_out.recommendations)}

----------------------------------------------------------------------------
(* One live scan and one replay trade side by side *)

TradeInit ==
    /\ scan_in \in [bench : ScanBenches, data_ok : BOOLEAN, max_price : {0},
                    stocks : [1..WatchLen -> {s \in ScanStocks : s.rsi = Num(60)}]]
    /\ scan_out = NotRun
    /\ sim_in \in [entry_price : {10000}, atr : {300}, state : Regimes,
                   df_future : {f \in Futures : Len(f) = 1}]
    /\ sim_out = NotRun
    /\ RegimeIdle
    /\ DiagIdle
    /\ ScoreIdle
    /\ LaterIdle

TradeNext == ScanPotentialStocks \/ SimulateTrade

SpecTrade == TradeInit /\ [][TradeNext]_vars

\* the table of the specification: stop multiple, target multiple (tenths),
\* maximum holding days
TradeTable(state) ==
    CASE state = "TREND" -> <<15, 35, 30>>
      [] state = "RANGE" -> <<10, 15, 10>>
      [] state = "VOLATILE" -> <<20, 20, 5>>

\* C8: the trade parameters depend on the regime only, by the table
\* TREND (1.5, 3.5, 30), RANGE (1.0, 1.5, 10), VOLATILE (2.0, 2.0, 5); the
\* scan (get_trade_params, or its fallback without a benchmark) and the
\* replay (simulate_trade_v5_3) use the same tuple for the same regime.
C8_TradeParamsAgree ==
    /\ scan_out.run => scan_out.params = TradeTable(scan_out.mkt)
    /\ sim_out.run => sim_out.params = TradeTable(sim_in.state)
    /\ (scan_out.run /\ sim_out.run /\ scan_out.mkt = sim_in.state)
          => scan_out.params = sim_out.params

C8_Witness ==
    /\ scan_out.run
    /\ sim_out.run
    /\ scan_out.bench_ok
    /\ scan_out.mkt = "VOLATILE"
    /\ sim_in.state = "VOLATILE"
    /\ scan_out.params = <<20, 20, 5>>
    /\ sim_out.params = <<20, 20, 5>>

----------------------------------------------------------------------------
(* Position sizing: app.get_position_sizing, backtest.calculate_position_size *)

\* the multiple (hundredths) printed in the label of get_position_sizing
label_size(label) ==
    CASE label = "1.5x" -> 150
      [] label = "1.0x" -> 100
      [] label = "0.5x" -> 50
      [] label = "0x" -> 0

\* calculate_position_size: 0 below 60 points, then 0.5 + (score - 60) / 40
\* rounded to two places; the multiple is in hundredths.  A size on a half
\* of a hundredth goes to the even neighbour, the rule of round(); there the
\* binary value of the product may fall on either side of the half.
calculate_position_size(score) ==
    IF score < 600000 THEN 0
    ELSE LET q == (score - 600000) \div 4000
             r == (score - 600000) % 4000
         IN  CASE r < 2000 -> 50 + q
               [] r > 2000 -> 50 + q + 1
               [] OTHER -> 50 + q + (q % 2)

\* every second point from 0 to 100, and the scores just below each tier;
\* none of them gives a size on a half of a hundredth
SizeScores ==
    { 20000 * k : k \in 0..50 } \cup { 599900, 699900, 799900, 899900 }

SizeInit ==
    /\ size_in \in SizeScores
    /\ size_live = NotRun
    /\ size_bt = NotRun
    /\ RegimeIdle /\ DiagIdle /\ ScoreIdle /\ ScanIdle /\ SimIdle
    /\ ReplayIdle /\ GridIdle /\ IndIdle /\ KlineIdle /\ BotIdle

SizeLive ==
    /\ ~size_live.run
    /\ size_live' = [run |-> TRUE, label |-> get_position_sizing(size_in),
                     size |-> label_size(get_position_sizing(size_in))]
    /\ UNCHANGED <<size_in, size_bt, outside_size>>

SizeBacktest ==
    /\ ~size_bt.run
    /\ size_bt' = [run |-> TRUE, size |-> calculate_position_size(size_in)]
    /\ UNCHANGED <<size_in, size_live, outside_size>>

SizeNext == SizeLive \/ SizeBacktest

SpecSize == SizeInit /\ [][SizeNext]_vars

\* the four tiers of the specification (multiple in hundredths)
SizeTiers(score) ==
    IF score >= 900000 THEN 150
    ELSE IF score >= 800000 THEN 100
    ELSE IF score >= 700000 THEN 50
    ELSE 0

\* C11: for every score in [0, 100] the position size is 1.5x from 90 up,
\* 1.0x from 80 to below 90, 0.5x from 70 to below 80 and 0x below 70, both
\* as reported by get_position_sizing and as computed by
\* calculate_position_size, the factor of a replayed trade's return.
C11_FourTiers ==
    /\ size_live.run => size_live.size = SizeTiers(size_in)
    /\ size_bt.run => size_bt.size = SizeTiers(size_in)

----------------------------------------------------------------------------
(* backtest.py run_strategy: the replay, one date after another *)

MaxDates == 2
ReplayWatch == 2

\* data.index[60:-35], numbered from 1
valid_dates == 1..MaxDates

\* the benchmark up to a date, after calculate_indicators: one frame for
\* each regime
ReplayBenches ==
    { [n |-> 250, ma20 |-> 110, ma60 |-> 100, adx |-> 30, atr |-> 2, close |-> 100],
      [n |-> 250, ma20 |-> 100, ma60 |-> 100, adx |-> 20, atr |-> 1, close |-> 100],
      [n |-> 250, ma20 |-> 100, ma60 |-> 100, adx |-> 20, atr |-> 2, close |-> 100] }

\* the history of one instrument up to a date, after calculate_indicators:
\* price 100.00; slope 20.00 saturates the slope score, ATR 3.00 gives the
\* full risk score and ATR 1.50 a risk score of 70.  The last one fails the first filter
\* (MA20 below MA60).
ReplayStocks ==
    { [n |-> 250, price |-> 10000, atr |-> 300, ma20 |-> 10500, ma60 |-> 10000,
       slope |-> 2000, vol_ratio |-> 20, rs_raw |-> 120],
      [n |-> 250, price |-> 10000, atr |-> 150, ma20 |-> 10500, ma60 |-> 10000,
       slope |-> 1, vol_ratio |-> 0, rs_raw |-> 110],
      [n |-> 250, price |-> 10000, atr |-> 300, ma20 |-> 9500, ma60 |-> 10000,
       slope |-> -5, vol_ratio |-> 14, rs_raw |-> 80] }

\* data.xs(stock).loc[date:].iloc[1:32]: valid_dates stops 35 bars before the
\* end of the data, so the slice always holds 31 bars
FUTURE_BARS == 31

\* all bars quiet but, in some, the third one
ReplayFutures ==
    { [i \in 1..FUTURE_BARS |-> IF i = 3 THEN b ELSE QuietBar] :
        b \in { t \in TailBars : t.High < 11000 } }

\* weights_config: a triple for each regime
ReplayConfigs == { [st \in Regimes |-> WEIGHT_BY_STATE(st)] }

\* a replay that scores every date with the default triple
rs_weights_default(weights_config, market_state) ==
    [trend |-> 6, momentum |-> 3, risk |-> 1]

\* weights_config.get(market_state, default)
rs_weights(weights_config, market_state) ==
    IF market_state \in DOMAIN weights_config THEN weights_config[market_state]
    ELSE [trend |-> 6, momentum |-> 3, risk |-> 1]

\* the first filter of the scan loop
rs_is_candidate(h) == h.n >= 60 /\ h.ma20 > h.ma60 /\ h.slope > 0

\* df_cand with its rs_rank and score columns
df_cand_row(candidates, i) ==
    LET c == candidates[i]
        row == [rs_rank |-> rs_rank_pct(candidates, 1..Len(candidates), i),
                ma20 |-> c.ma20, ma60 |-> c.ma60, slope |-> c.slope,
                price |-> c.price, vol_ratio |-> c.vol_ratio, atr |-> c.atr]
    IN  row

df_cand_score(candidates, i, weights) ==
    calculate_score_v5_2(df_cand_row(candidates, i), weights)

\* sort_values('score', ascending=False).iloc[0]: a row of the highest score
top_picks(candidates, weights) ==
    { i \in 1..Len(candidates) :
        \A j \in 1..Len(candidates) :
            df_cand_score(candidates, j, weights)
                <= df_cand_score(candidates, i, weights) }

\* a ledger whose trades are dated with the day of their entry
rs_trade_entry_date(date, top, score, pos_size, market_state, future_data) ==
    LET sim == simulate_trade_v5_3(top.price, future_data, top.atr,
                                   market_state)
    IN  [Exit_Date |-> date,
         Return |-> Ratio(sim.roi[1] * pos_size, sim.roi[2] * 100),
         Raw_ROI |-> sim.roi,
         Score |-> score \div 10000,
         Size |-> pos_size,
         State |-> market_state,
         params |-> sim.params,
         reason |-> sim.reason]

\* one trade of the ledger, and what the date decided
rs_trade(date, top, score, pos_size, market_state, future_data) ==
    LET sim == simulate_trade_v5_3(top.price, future_data, top.atr,
                                   market_state)
    IN  [Exit_Date |-> date + sim.exit_day,
         Return |-> Ratio(sim.roi[1] * pos_size, sim.roi[2] * 100),
         Raw_ROI |-> sim.roi,
         Score |-> score \div 10000,
         Size |-> pos_size,
         State |-> market_state,
         params |-> sim.params,
         reason |-> sim.reason]

ReplayInit ==
    /\ rs_cfg \in ReplayConfigs
    /\ rs = [run |-> TRUE, pc |-> "DATE", date |-> 1, bench |-> NoFrame,
             market_state |-> "-", weights |-> NoFrame, detected |-> 0,
             k |-> 0, candidates |-> <<>>, last |-> [date |-> 0],
             trades |-> <<>>]
    /\ RegimeIdle /\ DiagIdle /\ ScoreIdle /\ ScanIdle /\ SimIdle
    /\ SizeIdle /\ GridIdle /\ IndIdle /\ KlineIdle /\ BotIdle

\* lines 180-186: the regime and the weights of the date
RsMarketState ==
    /\ rs.run
    /\ rs.pc = "DATE"
    /\ rs.date \in valid_dates
    /\ \E current_bench \in ReplayBenches :
          LET market_state == detect_market_state_bt(current_bench)
          IN  rs' = [rs EXCEPT !.pc = "SCAN",
                               !.bench = current_bench,
                               !.market_state = market_state,
                               !.weights = rs_weights(rs_cfg, market_state),
                               !.detected = 1,
                               !.k = 1,
                               !.candidates = <<>>]
    /\ UNCHANGED <<rs_cfg, outside_replay>>

\* lines 189-207: one instrument of WATCH_LIST
RsScanStock ==
    /\ rs.run
    /\ rs.pc = "SCAN"
    /\ \E stock_hist \in ReplayStocks :
          rs' = [rs EXCEPT
                   !.candidates = IF rs_is_candidate(stock_hist)
                                  THEN Append(@, stock_hist) ELSE @,
                   !.k = @ + 1,
                   !.pc = IF rs.k = ReplayWatch THEN "PICK" ELSE "SCAN"]
    /\ UNCHANGED <<rs_cfg, outside_replay>>

\* lines 210-238: rank and score the candidates, size the first of them and
\* simulate its trade
RsPick ==
    /\ rs.run
    /\ rs.pc = "PICK"
    /\ LET candidates == rs.candidates
           day == [date |-> rs.date, bench |-> rs.bench,
                   market_state |-> rs.market_state, weights |-> rs.weights,
                   detected |-> rs.detected,
                   candidates |-> candidates,
                   scores |-> [i \in 1..Len(candidates) |->
                                 df_cand_score(candidates, i, rs.weights)]]
           next == [rs EXCEPT !.pc = IF rs.date + 1 \in valid_dates
                                     THEN "DATE" ELSE "DONE",
                              !.date = @ + 1, !.detected = 0, !.k = 0,
                              !.candidates = <<>>]
           none == [top |-> 0, score |-> 0, pos_size |-> 0, traded |-> FALSE]
       IN  IF candidates = <<>>
           THEN rs' = [next EXCEPT !.last = day @@ none]
           ELSE \E i \in top_picks(candidates, rs.weights) :
                  LET top_pick == candidates[i]
                      score == df_cand_score(candidates, i, rs.weights)
                      pos_size == calculate_position_size(score)
                  IN  \E future_data \in ReplayFutures :
                        IF pos_size > 0 /\ future_data # <<>>
                        THEN LET t == rs_trade(rs.date, top_pick, score, pos_size,
                                               rs.market_state, future_data)
                             IN  rs' = [next EXCEPT
                                          !.last = day @@
                                             [top |-> i,
                                              score |-> score,
                                              pos_size |-> pos_size,
                                              traded |-> TRUE],
                                          !.trades = Append(@, t)]
                        ELSE rs' = [next EXCEPT
                                      !.last = day @@
                                         [top |-> i,
                                          score |-> score, pos_size |-> pos_size,
                                          traded |-> FALSE]]
    /\ UNCHANGED <<rs_cfg, outside_replay>>

ReplayNext == RsMarketState \/ RsScanStock \/ RsPick

SpecReplay == ReplayInit /\ [][ReplayNext]_vars

\* either program: a replay of the backtest or a scan of the bot
OnceInit == ReplayInit \/ ScanInit

OnceNext == ReplayNext \/ ScanNext

SpecOnce == OnceInit /\ [][OnceNext]_vars

\* C20: within a replay the regime of each date is computed once, before
\* any instrument is scanned or scored, and that one value selects the
\* weights of every candidate's score and the parameters of the date's
\* trade; a scan classifies the regime once and uses it for every pick.
C20_RegimeOncePerDate ==
    /\ rs.run =>
         /\ rs.detected = (IF rs.pc \in {"SCAN", "PICK"} THEN 1 ELSE 0)
         /\ rs.pc \in {"SCAN", "PICK"} =>
               /\ rs.market_state = detect_market_state_bt(rs.bench)
               /\ rs.weights = rs_cfg[rs.market_state]
         /\ rs.pc = "DATE" => rs.candidates = <<>> /\ rs.k = 0
         /\ rs.last.date > 0 =>
               LET day == rs.last
               IN  /\ day.detected = 1
                   /\ day.market_state = detect_market_state_bt(day.bench)
                   /\ \A i \in DOMAIN day.scores :
                         day.scores[i] =
                            df_cand_score(day.candidates, i,
                                          rs_cfg[day.market_state])
                   /\ day.traded =>
                         LET t == rs.trades[Len(rs.trades)]
                         IN  /\ t.State = day.market_state
                             /\ t.params = sim_trade_params(day.market_state)
    /\ scan_out.run =>
         /\ scan_out.mkt = scan_regime(scan_in.bench).mkt
         /\ scan_out.params = scan_regime(scan_in.bench).params
         /\ \A i \in DOMAIN scan_out.levels :
               LET lv == scan_out.levels[i]
                   r == cand_row(scan_in.stocks, scan_out.candidates, lv.stock)
               IN  /\ lv.score = total_score(r, WEIGHT_BY_STATE(scan_out.mkt))
                   /\ lv.stop = stop_level(r.price, r.atr,
                                           get_trade_params(scan_out.mkt)[1])
                   /\ lv.target = target_level(r.price, r.atr,
                                               get_trade_params(scan_out.mkt)[2])

\* the second date of a replay, in RANGE, two candidates of different
\* scores, the first-ranked one traded
C20_Witness ==
    /\ rs.run
    /\ rs.last.date = 2
    /\ rs.last.market_state = "RANGE"
    /\ rs.last.weights = WEIGHT_BY_STATE("RANGE")
    /\ Len(rs.last.scores) = 2
    /\ rs.last.scores[1] # rs.last.scores[2]
    /\ rs.last.traded
    /\ Len(rs.trades) = 2
    /\ rs.trades[1].State = "TREND"
    /\ rs.trades[2].State = "RANGE"
    /\ rs.trades[2].params = <<10, 15, 10>>

\* C12: a candidate is selected only if its score reaches the threshold of
\* the regime, 70 points when RANGE and 60 when TREND or VOLATILE: the replay
\* simulates a trade, and the scan lists a pick, at or above it only; the
\* replay selects no more than the first-ranked candidate of a date.
C12_SelectedAboveThreshold ==
    /\ (rs.run /\ rs.last.date > 0 /\ rs.last.traded)
          => /\ rs.last.score >= score_threshold(rs.last.market_state)
             /\ \A i \in DOMAIN rs.last.scores :
                   rs.last.scores[i] <= rs.last.score
    /\ scan_out.run
          => \A i \in DOMAIN scan_out.levels :
                scan_out.levels[i].score >= score_threshold(scan_out.mkt)

\* C21: the ledger of a replay only grows.  A step of the replay leaves the
\* trades as they are or appends one trade to them, and it appends only when
\* it closes a date: the date then moves on, so that a date (and with it a
\* date and its first-ranked instrument) is recorded at most once and the
\* ledger never holds more trades than dates closed.  The recorded trades
\* are never changed or removed, and the exit date of the new trade is one
\* of the 31 bars after the date of its entry.
C21_LedgerOnlyGrows ==
    [][ rs.run =>
          /\ Len(rs'.trades) <= rs'.date - 1
          /\ \/ rs'.trades = rs.trades
             \/ /\ Len(rs'.trades) = Len(rs.trades) + 1
                /\ SubSeq(rs'.trades, 1, Len(rs.trades)) = rs.trades
                /\ rs.pc = "PICK"
                /\ rs'.date = rs.date + 1
                /\ rs'.last.date = rs.date
                /\ rs'.last.traded
                /\ LET t == rs'.trades[Len(rs'.trades)]
                   IN  /\ t.Exit_Date > rs.date
                       /\ t.Exit_Date <= rs.date + FUTURE_BARS ]_vars

\* two dates, a trade on each: the first stopped on its third bar, the
\* second held to the end of its window
C21_Witness ==
    /\ rs.run
    /\ rs.last.date = 2
    /\ Len(rs.trades) = 2
    /\ rs.trades[1].reason = "STOP"
    /\ rs.trades[1].Exit_Date = 4
    /\ rs.trades[2].reason = "TIME"
    /\ rs.trades[2].Exit_Date = 2 + rs.trades[2].params[3]

----------------------------------------------------------------------------
(* backtest.py run_grid_search *)

\* the loops over t in [0.4, 0.5, 0.6, 0.7] and m in [0.2, 0.3, 0.4], in
\* their order, keeping r = round(1.0 - t - m, 1) >= 0.1 (tenths)
grid_order ==
    LET t(k) == 4 + ((k - 1) \div 3)
        m(k) == 2 + ((k - 1) % 3)
        triple(k) == [trend |-> t(k), momentum |-> m(k),
                      risk |-> 10 - t(k) - m(k)]
        keep(w) == w.risk >= 1
    IN  SelectSeq([k \in 1..12 |-> triple(k)], keep)

\* the Return column of the ledger run_strategy hands back for one triple,
\* in hundredths of a percent: no trade; a win and a loss; one win; a large
\* loss and a small win
GridLedgers == { <<>>, <<500, -300>>, <<500>>, <<-500, 100>> }

RECURSIVE SumSeq(_)
SumSeq(q) == IF q = <<>> THEN 0 ELSE q[1] + SumSeq(Tail(q))

\* avg_ret * win_rate * 100 as a fraction: mean(Return) is sum / n and
\* (Return > 0).mean() is wins / n
perf_score(returns) ==
    LET n == Len(returns)
        wins == Cardinality({i \in 1..n : returns[i] > 0})
    IN  Ratio(SumSeq(returns) * wins * 100, n * n)

\* a comparison that lets a later triple of equal score take the lead
gs_better_or_equal(score, best_perf) ==
    score[1] * best_perf[2] >= best_perf[1] * score[2]

\* score > best_perf
gs_better(score, best_perf) == score[1] * best_perf[2] > best_perf[1] * score[2]

\* best_perf = -999 in the units of perf_score
BEST_PERF_INIT == -9990000

GridInit ==
    /\ gs = [run |-> TRUE, i |-> 1, data |-> "6mo",
             best_perf |-> Ratio(BEST_PERF_INIT, 1), best_weights |-> NoFrame,
             results_log |-> <<>>, evaluated |-> <<>>]
    /\ RegimeIdle /\ DiagIdle /\ ScoreIdle /\ ScanIdle /\ SimIdle
    /\ SizeIdle /\ ReplayIdle /\ IndIdle /\ KlineIdle /\ BotIdle

\* one pass of the loop over weight_combinations
GsEvaluate ==
    /\ gs.i <= Len(grid_order)
    /\ \E returns \in GridLedgers :
          LET w == grid_order[gs.i]
              config == [st \in Regimes |-> w]
              ran == [config |-> config, data |-> gs.data, n |-> Len(returns)]
          IN  IF returns # <<>>
              THEN LET score == perf_score(returns)
                       lead == gs_better(score, gs.best_perf)
                   IN  gs' = [gs EXCEPT
                                !.i = @ + 1,
                                !.evaluated = Append(@, ran),
                                !.results_log =
                                    Append(@, [Weights |-> w, Perf_Score |-> score,
                                               at |-> gs.i]),
                                !.best_perf = IF lead THEN score ELSE @,
                                !.best_weights = IF lead THEN w ELSE @]
              ELSE gs' = [gs EXCEPT !.i = @ + 1,
                                    !.evaluated = Append(@, ran)]
    /\ UNCHANGED outside_grid

GridNext == GsEvaluate

SpecGrid == GridInit /\ [][GridNext]_vars

\* C14: run_grid_search evaluates every triple of its grid on the same
\* data, and the best it reports is the triple whose mean(return) * win_rate
\* is the highest among the triples that made at least one trade, the
\* earliest of them on ties; every triple of the grid has trend, momentum and
\* risk of at least 0.1 each, summing to 1.0.
C14_BestOfGrid ==
    gs.run =>
       LET done == Len(gs.evaluated)
           log == gs.results_log
           traded == DOMAIN log
           tops == {k \in traded :
                      \A j \in traded :
                         ~gs_better(log[j].Perf_Score, log[k].Perf_Score)}
       IN  /\ \A k \in 1..Len(grid_order) :
                /\ grid_order[k].trend >= 1
                /\ grid_order[k].momentum >= 1
                /\ grid_order[k].risk >= 1
                /\ grid_order[k].trend + grid_order[k].momentum
                       + grid_order[k].risk = 10
           /\ done = gs.i - 1
           /\ \A k \in 1..done :
                /\ gs.evaluated[k].config = [st \in Regimes |-> grid_order[k]]
                /\ gs.evaluated[k].data = gs.data
           /\ {log[k].at : k \in 1..Len(log)}
                 = {k \in 1..done : gs.evaluated[k].n > 0}
           /\ IF traded = {}
              THEN gs.best_weights = NoFrame
              ELSE \E b \in tops :
                      /\ \A k \in tops : log[b].at <= log[k].at
                      /\ gs.best_weights = log[b].Weights
                      /\ gs.best_perf = log[b].Perf_Score

\* the whole grid evaluated, two triples sharing the highest score and a
\* triple without a trade among them; the first of the two is reported
C14_Witness ==
    /\ gs.run
    /\ gs.i = Len(grid_order) + 1
    /\ Len(gs.results_log) = Len(grid_order) - 1
    /\ gs.evaluated[1].n = 0
    /\ gs.results_log[2].Perf_Score = gs.best_perf
    /\ gs.results_log[5].Perf_Score = gs.best_perf
    /\ gs.results_log[1].Perf_Score # gs.best_perf
    /\ gs.best_weights = grid_order[3]
    /\ gs.results_log[8].Perf_Score[1] < 0

----------------------------------------------------------------------------
(* The indicator layer: app.calculate_adx, app.calculate_atr, the RSI of
   create_stock_chart, backtest.calculate_indicators *)

RSI_WINDOW == 14
VOL_WINDOW == 20

\* +inf, the quotient of a positive number by zero
Inf == <<1, 0>>

\* a / b on non-negative floats: 0/0 is NaN and a/0 is +inf
FDiv(a, b) ==
    IF b = 0 THEN (IF a = 0 THEN NaN ELSE Inf) ELSE Ratio(a, b)

\* a rolling column of n entries: NaN before the entry numbered first, the
\* value v from there on
Series(n, first, v) == [i \in 1..n |-> IF i >= first THEN v ELSE NaN]

\* pd.Series([0]*len(df))
Zeros(n) == [i \in 1..n |-> Num(0)]

\* 100 - (100 / (1 + rs)) with rs = gain / loss, the 14-bar means of the
\* rises and of the falls: 100 * gain / (gain + loss); rs = +inf gives
\* 100 - 0 and rs = NaN gives NaN
rsi_value(gain, loss) ==
    LET rs_idx == FDiv(gain, loss)
    IN  IF IsNaN(rs_idx) THEN NaN
        ELSE IF rs_idx = Inf THEN Ratio(100, 1)
        ELSE Ratio(100 * rs_idx[1], rs_idx[1] + rs_idx[2])

\* app.py calculate_adx: DX of a bar from the 14-bar sums of TR, +DM and
\* -DM.  plus_di = 100 * mean(+DM) / atr is 0/0 = NaN when the TR of the
\* window is 0; the 1e-9 added to sum_di makes DX 0 when both DI are 0.
dx_app(tr_sum, plus_sum, minus_sum) ==
    LET plus_di == FDiv(100 * plus_sum, tr_sum)
        minus_di == FDiv(100 * minus_sum, tr_sum)
    IN  IF IsNaN(plus_di) \/ IsNaN(minus_di) THEN NaN
        ELSE IF plus_sum + minus_sum = 0 THEN Ratio(0, 1)
        ELSE Ratio(100 * Abs(plus_sum - minus_sum), plus_sum + minus_sum)

\* backtest.py calculate_indicators: tr_sum and sum_di have their zeros
\* replaced by 1 before the divisions
dx_bt(tr_sum, plus_sum, minus_sum) ==
    LET tr_div == IF tr_sum = 0 THEN 1 ELSE tr_sum
        plus_di == Ratio(100 * plus_sum, tr_div)
        minus_di == Ratio(100 * minus_sum, tr_div)
        sum_di == IF plus_di[1] + minus_di[1] = 0 THEN tr_div
                  ELSE plus_di[1] + minus_di[1]
    IN  Ratio(100 * Abs(plus_di[1] - minus_di[1]), sum_di)

\* dx.rolling(14).mean() over a window of `flat` bars of DX dx_flat and
\* 14 - flat bars of DX dx_move: NaN when one of them is NaN
adx_mean(flat, dx_flat, dx_move) ==
    IF (flat > 0 /\ IsNaN(dx_flat)) \/ (flat < ATR_WINDOW /\ IsNaN(dx_move))
    THEN NaN
    ELSE IF flat = ATR_WINDOW THEN Ratio(0, 1)
    ELSE Ratio((ATR_WINDOW - flat) * dx_move[1], ATR_WINDOW * dx_move[2])

\* Frames of n bars.  ok: the frame has its High and Low columns.  ups and
\* downs: how many of the 14 closes of the last RSI window rose and fell, by
\* 1.00 each.  flat: how many bars of the last ADX window have a 14-bar TR
\* sum of 0; dm: the +DM and -DM sums of the other bars, whose TR sum is
\* TR_SUM.
TR_SUM == 400

IndLens == {10, 14, 27, 60, 70}

IndFrames ==
    [n : IndLens, ok : BOOLEAN,
     moves : { <<0, 0>>, <<3, 0>>, <<0, 3>>, <<7, 7>>, <<10, 4>> },
     flat : {0, 1, ATR_WINDOW},
     dm : { <<0, 0>>, <<300, 100>>, <<200, 200>> }]

\* the ATR column: the mean TR of the last window
atr_value(f) == IF f.flat = ATR_WINDOW THEN 0 ELSE TR_SUM \div ATR_WINDOW

\* app.py calculate_adx(df)
calculate_adx(f) ==
    IF ~f.ok THEN Zeros(f.n)
    ELSE Series(f.n, 2 * ATR_WINDOW - 1,
                adx_mean(f.flat, dx_app(0, 0, 0),
                         dx_app(TR_SUM, f.dm[1], f.dm[2])))

\* app.py calculate_atr(df)
calculate_atr(f) ==
    IF ~f.ok THEN Zeros(f.n)
    ELSE Series(f.n, ATR_WINDOW, Num(atr_value(f)))

\* the RSI column of both files
rsi_column(f) ==
    Series(f.n, RSI_WINDOW, rsi_value(100 * f.moves[1], 100 * f.moves[2]))

\* backtest.py calculate_indicators(df): the columns it writes; it raises on
\* a frame without High and Low
calculate_indicators(f) ==
    IF ~f.ok THEN [run |-> TRUE, raised |-> TRUE]
    ELSE [run |-> TRUE, raised |-> FALSE,
          MA20 |-> Series(f.n, MA_SHORT, Num(10000)),
          MA60 |-> Series(f.n, MA_LONG, Num(10000)),
          ATR |-> Series(f.n, ATR_WINDOW, Num(atr_value(f))),
          RSI |-> rsi_column(f),
          ADX |-> Series(f.n, 2 * ATR_WINDOW - 1,
                         adx_mean(f.flat, dx_bt(0, 0, 0),
                                  dx_bt(TR_SUM, f.dm[1], f.dm[2]))),
          Vol_MA20 |-> Series(f.n, VOL_WINDOW, Num(1000)),
          DX |-> IF f.flat > 0 THEN dx_bt(0, 0, 0)
                 ELSE dx_bt(TR_SUM, f.dm[1], f.dm[2])]

IndInit ==
    /\ ind_in \in IndFrames
    /\ ind_app = NotRun
    /\ ind_bt = NotRun
    /\ RegimeIdle /\ DiagIdle /\ ScoreIdle /\ ScanIdle /\ SimIdle
    /\ SizeIdle /\ ReplayIdle /\ GridIdle /\ KlineIdle /\ BotIdle

\* create_stock_chart, lines 500-517: the columns of the diagnosis
IndApp ==
    /\ ~ind_app.run
    /\ ind_app' = [run |-> TRUE, raised |-> FALSE,
                   MA20 |-> Series(ind_in.n, MA_SHORT, Num(10000)),
                   MA60 |-> IF ind_in.n < MA_LONG
                            THEN Series(ind_in.n, MA_SHORT, Num(10000))
                            ELSE Series(ind_in.n, MA_LONG, Num(10000)),
                   RSI |-> rsi_column(ind_in),
                   Vol_MA20 |-> Series(ind_in.n, VOL_WINDOW, Num(1000)),
                   ADX |-> calculate_adx(ind_in),
                   ATR |-> calculate_atr(ind_in),
                   DX |-> IF ind_in.flat > 0 THEN dx_app(0, 0, 0)
                          ELSE dx_app(TR_SUM, ind_in.dm[1], ind_in.dm[2])]
    /\ UNCHANGED <<ind_in, ind_bt, outside_ind>>

IndBacktest ==
    /\ ~ind_bt.run
    /\ ind_bt' = calculate_indicators(ind_in)
    /\ UNCHANGED <<ind_in, ind_app, outside_ind>>

IndNext == IndApp \/ IndBacktest

SpecInd == IndInit /\ [][IndNext]_vars

\* the columns computed so far, by either file
IndOutputs == {out \in {ind_app, ind_bt} : out.run /\ ~out.raised}

\* C15: at every bar whose 14-bar window is complete the RSI is defined and
\* lies in [0, 100]; when the average loss of the window is 0, the average
\* gain being 0 as well or not, the RSI is 100, never NaN or infinite.
C15_RsiDefinedOnFullWindow ==
    \A out \in IndOutputs :
       \A i \in RSI_WINDOW..ind_in.n :
          LET r == out.RSI[i]
          IN  /\ ~IsNaN(r)
              /\ r[2] > 0
              /\ 0 <= r[1] /\ r[1] <= 100 * r[2]
              /\ ind_in.moves[2] = 0 => r[1] = 100 * r[2]

\* C16: in both ADX computations, when +DI plus -DI is 0, the window being
\* completely flat (TR, +DM and -DM all 0) or not, DX is 0 and the ADX is
\* defined and finite.
C16_AdxOnZeroDiSum ==
    \A out \in IndOutputs :
       (ind_in.ok /\ ind_in.n >= 2 * ATR_WINDOW - 1
          /\ (ind_in.flat > 0 \/ ind_in.dm = <<0, 0>>))
         => /\ ~IsNaN(out.DX)
            /\ out.DX[1] = 0 /\ out.DX[2] > 0
            /\ ~IsNaN(out.ADX[ind_in.n])
            /\ out.ADX[ind_in.n][2] > 0

\* C17: MA20, MA60, ATR14, ADX14 and the 20-day volume average are columns
\* of the length of the frame whose entries before the window is complete
\* are undefined, all of them on a frame shorter than the window; no path,
\* a failure inside calculate_adx or calculate_atr included, puts 0 in the
\* place of an undefined entry.
C17_UndefinedNeverZero ==
    \A out \in IndOutputs :
       LET undefined_before(col, window) ==
               /\ Len(col) = ind_in.n
               /\ \A i \in 1..Min(ind_in.n, window - 1) : IsNaN(col[i])
       IN  /\ undefined_before(out.MA20, MA_SHORT)
           /\ undefined_before(out.MA60, MA_LONG)
           /\ undefined_before(out.ATR, ATR_WINDOW)
           /\ undefined_before(out.ADX, ATR_WINDOW)
           /\ undefined_before(out.Vol_MA20, VOL_WINDOW)

----------------------------------------------------------------------------
(* app.py analyze_kline_structure *)

KLINE_MIN_BARS == 20

get_body(row) == Abs(row.Close - row.Open)

\* five times avg_body, the mean body of the last five bars (0.1 when it
\* is 0); rest is the sum of the bodies of the fourth and fifth bar back
body_sum(k) ==
    LET total == get_body(k.t0) + get_body(k.t1) + get_body(k.t2) + k.rest
    IN  IF total = 0 THEN 50 ELSE total

\* "多頭" if ma20 > df['MA60'].iloc[-1] else "空頭"
trend_context(k) == IF k.ma20 > k.ma60 THEN "BULL" ELSE "BEAR"

is_red(row) == row.Close > row.Open

is_black(row) == row.Close < row.Open

BirdsBeak(k) ==
    /\ k.prev_ma5 <= k.prev_ma20 /\ k.ma5 > k.ma20
    /\ k.ma5 > k.prev_ma5 /\ k.ma20 > k.prev_ma20

WBottom(k) ==
    /\ is_black(k.t2) /\ is_red(k.t1) /\ is_red(k.t0)
    /\ k.t0.Low > k.t2.Low
    /\ trend_context(k) = "BEAR"

\* get_body(t1) < avg_body * 0.5 and t0 closing above the middle of t2
MorningStar(k) ==
    /\ is_black(k.t2)
    /\ 10 * get_body(k.t1) < body_sum(k)
    /\ is_red(k.t0)
    /\ 2 * k.t0.Close > k.t2.Open + k.t2.Close

EveningStar(k) ==
    /\ is_red(k.t2)
    /\ 10 * get_body(k.t1) < body_sum(k)
    /\ is_black(k.t0)
    /\ 2 * k.t0.Close < k.t2.Open + k.t2.Close

BullishEngulfing(k) ==
    /\ is_black(k.t1) /\ is_red(k.t0)
    /\ k.t0.Close > k.t1.Open /\ k.t0.Open < k.t1.Close

BearishEngulfing(k) ==
    /\ is_red(k.t1) /\ is_black(k.t0)
    /\ k.t0.Close < k.t1.Open /\ k.t0.Open > k.t1.Close

ThreeWhiteSoldiers(k) ==
    /\ is_red(k.t0) /\ is_red(k.t1) /\ is_red(k.t2)
    /\ k.t0.Close > k.t1.Close /\ k.t1.Close > k.t2.Close

Hammer(k) ==
    /\ Min(k.t0.Close, k.t0.Open) - k.t0.Low > 2 * get_body(k.t0)
    /\ trend_context(k) = "BEAR"

ShootingStar(k) ==
    /\ k.t0.High - Max(k.t0.Close, k.t0.Open) > 2 * get_body(k.t0)
    /\ trend_context(k) = "BULL"

\* get_body(t0) < avg_body * 0.2
Doji(k) == 25 * get_body(k.t0) < body_sum(k)

\* analyze_kline_structure(df): the pattern and its score (tenths), the
\* tests in the order of the function
analyze_kline_structure(k) ==
    IF k.n < KLINE_MIN_BARS THEN [run |-> TRUE, pattern |-> "NO_DATA", score |-> 0]
    ELSE IF BirdsBeak(k) THEN [run |-> TRUE, pattern |-> "BIRDS_BEAK", score |-> 10]
    ELSE IF WBottom(k) THEN [run |-> TRUE, pattern |-> "W_BOTTOM", score |-> 7]
    ELSE IF MorningStar(k)
    THEN [run |-> TRUE, pattern |-> "MORNING_STAR", score |-> 9]
    ELSE IF EveningStar(k)
    THEN [run |-> TRUE, pattern |-> "EVENING_STAR", score |-> -9]
    ELSE IF BullishEngulfing(k)
    THEN [run |-> TRUE, pattern |-> "BULLISH_ENGULFING", score |-> 10]
    ELSE IF BearishEngulfing(k)
    THEN [run |-> TRUE, pattern |-> "BEARISH_ENGULFING", score |-> -10]
    ELSE IF ThreeWhiteSoldiers(k)
    THEN [run |-> TRUE, pattern |-> "THREE_WHITE_SOLDIERS", score |-> 8]
    ELSE IF Hammer(k) THEN [run |-> TRUE, pattern |-> "HAMMER", score |-> 6]
    ELSE IF ShootingStar(k)
    THEN [run |-> TRUE, pattern |-> "SHOOTING_STAR", score |-> -6]
    ELSE IF Doji(k) THEN [run |-> TRUE, pattern |-> "DOJI", score |-> 0]
    ELSE [run |-> TRUE, pattern |-> "NONE", score |-> 0]

\* Bars (hundredths): two rising red bars, a red bar with a long lower
\* shadow, a red bar with a long upper shadow, a long black bar, a small red
\* star and a red bar that engulfs the black one
KlineBars ==
    { [Open |-> 10000, High |-> 10250, Low |-> 9950, Close |-> 10200],
      [Open |-> 10200, High |-> 10450, Low |-> 10150, Close |-> 10400],
      [Open |-> 10600, High |-> 10720, Low |-> 10300, Close |-> 10700],
      [Open |-> 10600, High |-> 11000, Low |-> 10590, Close |-> 10700],
      [Open |-> 10500, High |-> 10550, Low |-> 9950, Close |-> 9990],
      [Open |-> 10000, High |-> 10050, Low |-> 9900, Close |-> 10020],
      [Open |-> 9900, High |-> 10650, Low |-> 9850, Close |-> 10600] }

\* the 5- and 20-bar means today and yesterday: a golden cross with both
\* rising, or flat means
KlineMeans ==
    { [ma5 |-> 10200, ma20 |-> 10100, prev_ma5 |-> 10000, prev_ma20 |-> 10000],
      [ma5 |-> 10000, ma20 |-> 10000, prev_ma5 |-> 10000, prev_ma20 |-> 10000] }

KlineInputs ==
    { [n |-> n, t0 |-> b[1], t1 |-> b[2], t2 |-> b[3], rest |-> rest,
       ma5 |-> m.ma5, ma20 |-> m.ma20, prev_ma5 |-> m.prev_ma5,
       prev_ma20 |-> m.prev_ma20, ma60 |-> ma60] :
        n \in {10, 60}, b \in KlineBars \X KlineBars \X KlineBars,
        rest \in {0, 400}, m \in KlineMeans, ma60 \in {9900, 10500} }

KlineInit ==
    /\ kl_in \in KlineInputs
    /\ kl_out = NotRun
    /\ RegimeIdle /\ DiagIdle /\ ScoreIdle /\ ScanIdle /\ SimIdle
    /\ SizeIdle /\ ReplayIdle /\ GridIdle /\ IndIdle /\ BotIdle

AnalyzeKline ==
    /\ ~kl_out.run
    /\ kl_out' = analyze_kline_structure(kl_in)
    /\ UNCHANGED <<kl_in, outside_kline>>

KlineNext == AnalyzeKline

SpecKline == KlineInit /\ [][KlineNext]_vars

\* C18: the cascade keeps the priorities: when the last bars form a morning
\* or an evening star that label is returned, whatever two-bar, single-bar
\* or continuation rule matches as well; when an engulfing or a shadow rule
\* (hammer, shooting star) matches together with three white soldiers, the
\* engulfing or shadow label is returned, not the continuation one.
C18_CascadePriorities ==
    (kl_out.run /\ kl_in.n >= KLINE_MIN_BARS) =>
       /\ MorningStar(kl_in) => kl_out.pattern = "MORNING_STAR"
       /\ EveningStar(kl_in) => kl_out.pattern = "EVENING_STAR"
       /\ (/\ ThreeWhiteSoldiers(kl_in)
           /\ \/ BullishEngulfing(kl_in) \/ BearishEngulfing(kl_in)
              \/ Hammer(kl_in) \/ ShootingStar(kl_in))
             => kl_out.pattern \in {"BULLISH_ENGULFING", "BEARISH_ENGULFING",
                                    "HAMMER", "SHOOTING_STAR"}

----------------------------------------------------------------------------
(* app.py handle_message and check_user_state *)

MAX_REQUESTS_PER_WINDOW == 5
WINDOW_SECONDS == 300
COOLDOWN_SECONDS == 600

\* the clock stops here
MaxClock == 900

\* seconds between two messages
ClockSteps == {0, 299, 300, 600}

Users == {"u1"}

\* cooldown_until = None
None == -1

\* a limiter that locks at the fifth request of a window
over_limit_at_five(counted) == counted.count >= MAX_REQUESTS_PER_WINDOW

\* user_data['count'] > MAX_REQUESTS_PER_WINDOW
over_limit(counted) == counted.count > MAX_REQUESTS_PER_WINDOW

\* a limiter whose cooldown starts again at every rejected request
cooldown_reject_restart(usage, user_id, now) ==
    [usage |-> [usage EXCEPT ![user_id].cooldown_until =
                                now + COOLDOWN_SECONDS],
     is_blocked |-> TRUE, block_msg |-> "COOLDOWN",
     remaining |-> (usage[user_id].cooldown_until - now) \div 60]

\* the return inside the cooldown: nothing of USER_USAGE is written
cooldown_reject(usage, user_id, now) ==
    [usage |-> usage, is_blocked |-> TRUE, block_msg |-> "COOLDOWN",
     remaining |-> (usage[user_id].cooldown_until - now) \div 60]

\* check_user_state(user_id) at time now: the new USER_USAGE, whether the
\* user is blocked and with which message
check_user_state(usage, user_id, now) ==
    IF user_id \notin DOMAIN usage
    THEN [usage |-> (user_id :> [last_time |-> now, count |-> 1,
                                 cooldown_until |-> None]) @@ usage,
          is_blocked |-> FALSE, block_msg |-> ""]
    ELSE LET user_data == usage[user_id]
         IN  IF user_data.cooldown_until # None /\ now < user_data.cooldown_until
             THEN cooldown_reject(usage, user_id, now)
             ELSE LET counted ==
                          IF now - user_data.last_time < WINDOW_SECONDS
                          THEN [user_data EXCEPT !.count = @ + 1]
                          ELSE [user_data EXCEPT !.count = 1, !.last_time = now]
                  IN  IF over_limit(counted)
                      THEN [usage |-> [usage EXCEPT ![user_id] =
                                         [counted EXCEPT !.cooldown_until =
                                             now + COOLDOWN_SECONDS]],
                            is_blocked |-> TRUE, block_msg |-> "LOCKED_10_MIN"]
                      ELSE [usage |-> [usage EXCEPT ![user_id] = counted],
                            is_blocked |-> FALSE, block_msg |-> ""]

\* the text built from the title p and the list r of a scan:
\* header + "\n\n".join(r) if r else "無符合條件個股"
recommend_reply(p, r) ==
    IF r # <<>> THEN [run |-> TRUE, text |-> "LIST", title |-> p, items |-> r]
    ELSE [run |-> TRUE, text |-> "NO_MATCH", title |-> "", items |-> <<>>]

\* the commands drawn: 推薦, 百元推薦 (max_price = 100) and 說明
Commands == {"RECOMMEND", "RECOMMEND_100", "HELP"}

\* what the scans of a session see: the benchmark up or missing, the
\* download served or throttled, and a watch list of strong, of weak or of
\* failing instruments
BotScanInputs ==
    { in \in ScanInputs :
        /\ in.max_price = 0
        /\ in.bench.ma20 = 100 /\ in.bench.adx = 20
        /\ \A i \in DOMAIN in.stocks :
              /\ in.stocks[i] = in.stocks[1]
              /\ in.stocks[i].n = 250 /\ in.stocks[i].price = 9000 }

BotInit ==
    /\ scan_in \in BotScanInputs
    /\ scan_out = NotRun
    /\ USER_USAGE = <<>>
    /\ clock = 0
    /\ reply = NotRun
    /\ RegimeIdle /\ DiagIdle /\ ScoreIdle /\ SimIdle
    /\ SizeIdle /\ ReplayIdle /\ GridIdle /\ IndIdle /\ KlineIdle

\* handle_message(event): the rate limit first, then the command
HandleMessage ==
    \E user_id \in Users, msg \in Commands, step \in ClockSteps :
       LET now == clock + step
           st == check_user_state(USER_USAGE, user_id, now)
       IN  /\ now <= MaxClock
           /\ clock' = now
           /\ USER_USAGE' = st.usage
           /\ IF st.is_blocked
              THEN /\ reply' = [run |-> TRUE, text |-> st.block_msg,
                                title |-> "", items |-> <<>>]
                   /\ UNCHANGED scan_out
              ELSE IF msg = "HELP"
              THEN /\ reply' = [run |-> TRUE, text |-> "HELP",
                                title |-> "", items |-> <<>>]
                   /\ UNCHANGED scan_out
              ELSE LET in == [scan_in EXCEPT !.max_price =
                                 IF msg = "RECOMMEND_100" THEN 10000 ELSE 0]
                   IN  \E first \in top_rows(in) :
                          LET out == scan_potential_stocks(in, first)
                          IN  /\ scan_out' = out
                              /\ reply' = recommend_reply(out.title,
                                                          out.recommendations)
                                             @@ [scan |-> out]
           /\ UNCHANGED <<scan_in, regime_vars, diag_vars, score_vars, sim_vars,
                          size_vars, replay_vars, grid_vars, ind_vars,
                          kline_vars>>

BotNext == HandleMessage

SpecBot == BotInit /\ [][BotNext]_vars

\* the reply of a scan that selected nothing
NoMatchReply(r) == r.text = "NO_MATCH"

\* C19: a failure and a legitimate empty result are never presented as the
\* same outcome: the reply to a recommendation command when no candidate
\* reached the threshold differs from the reply when the scan raised an
\* error, and a scan that finds candidates, none of them at or above the
\* threshold, is reported as the empty result.
C19_EmptyResultDistinct ==
    (reply.run /\ "scan" \in DOMAIN reply) =>
       /\ reply.scan.outcome = "ERROR" => ~NoMatchReply(reply)
       /\ (reply.scan.outcome = "OK" /\ reply.scan.picks = {})
             => NoMatchReply(reply)

\* the replies of a rejected request
BlockTexts == {"COOLDOWN", "LOCKED_10_MIN"}

\* C22: the requests of one user, in the order of their timestamps.  The
\* first request of a user is admitted and opens a window; a request less
\* than 300 seconds after the first request of the window is counted in it;
\* the counted requests up to the fifth are admitted, the sixth is rejected
\* and starts a cooldown that ends exactly 600 seconds after it; every
\* request strictly before that end is rejected; and a request is rejected
\* only when a cooldown is active or the count of the window has passed 5.
C22_RateLimit ==
    [][ \A u \in Users :
          LET now == clock'
              post == USER_USAGE'[u]
              rejected == reply'.text \in BlockTexts
          IN  IF u \notin DOMAIN USER_USAGE
              THEN /\ ~rejected
                   /\ post = [last_time |-> now, count |-> 1,
                              cooldown_until |-> None]
              ELSE LET d == USER_USAGE[u]
                       active == d.cooldown_until # None
                                    /\ now < d.cooldown_until
                       inside == now - d.last_time < 300
                   IN  /\ active => rejected
                       /\ (~active /\ inside /\ d.count < 5) =>
                             /\ ~rejected
                             /\ post.count = d.count + 1
                             /\ post.last_time = d.last_time
                       /\ (~active /\ inside /\ d.count >= 5) =>
                             /\ rejected
                             /\ post.count = 6
                             /\ post.cooldown_until = now + 600
                       /\ (~active /\ ~inside) =>
                             /\ ~rejected
                             /\ post.count = 1
                             /\ post.last_time = now
                       /\ rejected => (active \/ post.count > 5)
                       /\ post.count \in 1..6 ]_vars

\* five requests at second 0, the sixth at second 0 starts the cooldown that
\* ends at second 600, and the request at second 599 is still rejected
C22_Witness ==
    /\ reply.run
    /\ reply.text = "COOLDOWN"
    /\ clock = 599
    /\ USER_USAGE["u1"] = [last_time |-> 0, count |-> 6, cooldown_until |-> 600]

\* C23: a cooldown is not extended and it ends.  A request rejected while
\* the cooldown is active changes nothing of the record of the user; the
\* end of a cooldown is never more than 600 seconds away; and the first
\* request at or after the end is admitted and opens a new window with a
\* count of 1.
C23_CooldownEnds ==
    [][ \A u \in DOMAIN USER_USAGE :
          LET now == clock'
              d == USER_USAGE[u]
              post == USER_USAGE'[u]
              rejected == reply'.text \in BlockTexts
          IN  /\ (d.cooldown_until # None /\ now < d.cooldown_until) =>
                    /\ rejected
                    /\ post = d
              /\ (d.cooldown_until # None /\ now >= d.cooldown_until
                     /\ d.count > 5) =>
                    /\ ~rejected
                    /\ post.count = 1
                    /\ post.last_time = now
                    /\ post.cooldown_until = d.cooldown_until
              /\ post.cooldown_until # None =>
                    post.cooldown_until <= now + 600 ]_vars

\* locked at second 0 until second 600, rejected at second 300, and admitted
\* at second 600 exactly, with a new window
C23_Witness ==
    /\ reply.run
    /\ reply.text \notin BlockTexts
    /\ clock = 600
    /\ USER_USAGE["u1"] = [last_time |-> 600, count |-> 1, cooldown_until |-> 600]

\* C24: when the regime of the scan is VOLATILE the scan stops before the
\* download: it takes no candidate, scores no instrument and returns no
\* recommendation, with the circuit-breaker message as its title, and the
\* reply sent for the recommendation command carries that message and is
\* not the text of a scan without a match.
C24_CircuitBreakerReply ==
    (reply.run /\ "scan" \in DOMAIN reply
       /\ reply.scan.bench_ok /\ reply.scan.mkt = "VOLATILE") =>
       /\ reply.scan.outcome = "CIRCUIT"
       /\ reply.scan.title = "CIRCUIT_BREAKER"
       /\ reply.scan.recommendations = <<>>
       /\ reply.scan.candidates = {}
       /\ reply.scan.levels = <<>>
       /\ reply.title = "CIRCUIT_BREAKER"
       /\ ~NoMatchReply(reply)

\* C25: within a bar the stop is tested before the target.  When the first
\* bar of the window that touches a level has both its low at or below the
\* stop and its high at or above the target, the trade exits on that bar
\* with reason STOP; a TARGET exit is reported only on a bar whose low is
\* strictly above the stop; and with a positive ATR the return of a STOP is
\* negative and the return of a TARGET is positive.
C25_StopBeforeTarget ==
    sim_out.run =>
       LET f == sim_in.df_future
           entry == sim_in.entry_price
           tb == TradeTable(sim_in.state)
           stop == entry - (sim_in.atr * tb[1]) \div 10
           target == entry + (sim_in.atr * tb[2]) \div 10
           w == Min(tb[3], Len(f))
           d == sim_out.exit_day
           touched(i) == f[i].Low <= stop \/ f[i].High >= target
           both(i) == f[i].Low <= stop /\ f[i].High >= target
       IN  /\ \A i \in 1..w :
                 (both(i) /\ \A j \in 1..(i - 1) : ~touched(j))
                    => /\ sim_out.reason = "STOP"
                       /\ d = i
                       /\ sim_in.atr > 0 => sim_out.roi[1] * sim_out.roi[2] < 0
           /\ sim_out.reason = "TARGET" => f[d].Low > stop
           /\ (sim_in.atr > 0 /\ sim_out.reason = "STOP")
                 => sim_out.roi[1] < 0 /\ sim_out.roi[2] > 0
           /\ (sim_in.atr > 0 /\ sim_out.reason = "TARGET")
                 => sim_out.roi[1] > 0 /\ sim_out.roi[2] > 0

\* entry 100.00, ATR 2.00 in VOLATILE (stop 96.00, target 104.00): the second
\* bar runs from 93.00 to 111.00 and the trade is stopped there at -4%
C25_Witness ==
    /\ sim_out.run
    /\ sim_in.state = "VOLATILE"
    /\ sim_in.atr = 200
    /\ Len(sim_in.df_future) >= 2
    /\ sim_in.df_future[1] = QuietBar
    /\ sim_in.df_future[2].Low = 9300
    /\ sim_in.df_future[2].High = 11100
    /\ sim_out.reason = "STOP"
    /\ sim_out.exit_day = 2
    /\ sim_out.roi = Ratio(-400, 10000)

====
